---- MODULE Spec2Model ----
(***************************************************************************)
(* Backup orchestration and retention engine of MC-Backuper (src/main.go). *)
(* The program is one sequential worker: main() loops over the instances   *)
(* of the catalog, and for every active, running instance with players it  *)
(* calls removeOldSaves (retention) and then backupInstance (quiesce, tar, *)
(* upload, record).  Every external call (docker/rcon, tar, aws, sqlite,   *)
(* the local file system) may fail; its outcome is chosen by \E.           *)
(***************************************************************************)
EXTENDS Integers, Sequences, FiniteSets, TLC

\* saveRetention := 5 (main.go:450), SAVE_RETENTION_COUNT in the constants file
SAVE_RETENTION_COUNT == 5

\* ---- bounds of the model ----
MaxRuns == 2
MaxRetries == 2
MaxInitLive == 6

\* byte sizes an archive may have, and replies of /list
Sizes == {1, 2}
PlayerCounts == {0, 1}
\* why tar can fail: a file changed as it was read, or a system error (disk full,
\* permission denied); the program logs the error and never looks at its kind
TarErrors == {"changed", "system"}

\* ---- the instances table (read-only at run time) ----
InstanceTable ==
  << [id |-> 1, containerName |-> "mc1", dirName |-> "world", s3Bucket |-> "bkt",
      prefix |-> "saves", workingPath |-> "/srv/mc1", active |-> TRUE,
      keepInventory |-> TRUE],
     [id |-> 2, containerName |-> "mc2", dirName |-> "world", s3Bucket |-> "bkt",
      prefix |-> "saves", workingPath |-> "/srv/mc2", active |-> FALSE,
      keepInventory |-> FALSE],
     [id |-> 3, containerName |-> "mc3", dirName |-> "world", s3Bucket |-> "bkt",
      prefix |-> "saves", workingPath |-> "/srv/mc3", active |-> TRUE,
      keepInventory |-> FALSE] >>

InstanceIds == 1..Len(InstanceTable)

VARIABLES
  pc,               \* position of the worker in main / removeOldSaves / backupInstance
  runs,             \* loop bodies that went on to removeOldSaves since start-up
  now,              \* the wall clock as read in the current run (runs are a sleep apart)
  queue,            \* instances of this pass not yet visited (range loop of main)
  cur,              \* the instance being processed (0: none)
  playerCount,      \* main's playerCount local
  saves,            \* committed rows of the saves table, in id order
  s3,               \* objects in remote storage
  disk,             \* archive files on the local disk
  cwd,              \* the process working directory (os.Chdir)
  tx,               \* the open catalog transaction of the running call
  rows,             \* removeOldSaves: rows of the cursor not yet fetched
  idx,              \* removeOldSaves: the counter i
  tarFileName,      \* backupInstance: tarFileName
  statSize,         \* backupInstance: tarFileStats.Size()
  retries,          \* backupInstance: failed archive attempts of this run
  tarErr,           \* backupInstance: kind of the error of the last tar attempt, as logged
  pruneRes,         \* result of removeOldSaves for cur: "none", "ok", "err"
  backupRes,        \* result of backupInstance for cur: "none", "ok", "err"
  ops,              \* external calls issued while processing cur, in order
  savesBeforePrune, \* the saves table when removeOldSaves was called
  s3BeforePrune,    \* remote storage when removeOldSaves was called
  savesBeforeBackup,\* the saves table when backupInstance was called
  s3BeforeBackup,   \* remote storage when backupInstance was called
  diskBeforeBackup, \* the local disk when backupInstance was called
  runStart,         \* clock value read by getTime in this run
  lastPrune,        \* per instance: outcome of its latest removeOldSaves with no Save since
  visited,          \* active instances whose loop body was entered in this pass
  exitCause         \* why the process ended ("none" while it runs)

vars == << pc, runs, now, queue, cur, playerCount, saves, s3, disk, cwd, tx, rows,
           idx, tarFileName, statSize, retries, tarErr, pruneRes, backupRes, ops,
           savesBeforePrune, s3BeforePrune, savesBeforeBackup, s3BeforeBackup,
           diskBeforeBackup, runStart, lastPrune, visited, exitCause >>

\* ---- values ----
NoFile == << >>
NoTx == [state |-> "none", tomb |-> {}, ins |-> << >>]
OpenTx == [state |-> "open", tomb |-> {}, ins |-> << >>]
\* tx, _ := db.Begin() with the error dropped: a nil *sql.Tx
NilTx == [state |-> "nil", tomb |-> {}, ins |-> << >>]
NoPrune == [res |-> "none", live |-> {}]

Min(a, b) == IF a <= b THEN a ELSE b

\* tarFileName = "world" + getTime() + ".tar.gz"; getTime formats the clock to the second
FileName(t) == << "world", t, ".tar.gz" >>

Ev(op, file, id) == [op |-> op, file |-> file, id |-> id]
Cmd(c) == Ev(c, NoFile, 0)
\* time.Sleep(sec * time.Second)
Sleep(sec) == Ev("sleep", NoFile, sec)

Inst == InstanceTable[cur]

\* the s3://bucket/prefix/name key of an object
S3Key(inst, name) == << inst.s3Bucket, inst.prefix, name >>

S3Has(store, inst, name) == \E o \in store : o.key = S3Key(inst, name)

\* aws s3 cp fileName s3://bucket/prefix/fileName
S3Put(store, inst, name, size) ==
  {o \in store : o.key # S3Key(inst, name)} \cup {[key |-> S3Key(inst, name), size |-> size]}

\* aws s3 rm s3://bucket/prefix/fileName
S3Remove(store, inst, name) == {o \in store : o.key # S3Key(inst, name)}

\* ids of the non-deleted rows of an instance
Live(S, id) == {k \in 1..Len(S) : S[k].instance_id = id /\ ~S[k].deleted}

RECURSIVE OrderByCreatedDesc(_, _)
OrderByCreatedDesc(S, ids) ==
  IF ids = {} THEN << >>
  ELSE LET m == CHOOSE k \in ids : \A j \in ids : S[j].created_at <= S[k].created_at
       IN << [id |-> S[m].id, filename |-> S[m].filename] >>
          \o OrderByCreatedDesc(S, ids \ {m})

\* Variant of SelectLiveSaves without the instance_id = ? filter
SelectLiveSavesAllInstances(S, id) ==
  OrderByCreatedDesc(S, {k \in 1..Len(S) : ~S[k].deleted})

\* Variant of SelectLiveSaves without the deleted = 0 filter
SelectSavesWithDeleted(S, id) ==
  OrderByCreatedDesc(S, {k \in 1..Len(S) : S[k].instance_id = id})

\* SELECT id,filename FROM saves WHERE deleted = 0 AND instance_id = ? ORDER BY created_at DESC
SelectLiveSaves(S, id) == OrderByCreatedDesc(S, Live(S, id))

\* Variant of Tombstone that deletes the rows instead of marking them
TombstoneHardDelete(S, ids) == SelectSeq(S, LAMBDA r : r.id \notin ids)

\* UPDATE saves SET deleted = 1 WHERE id = ?, for every id of the committed transaction
Tombstone(S, ids) ==
  [k \in 1..Len(S) |-> IF k \in ids THEN [S[k] EXCEPT !.deleted = TRUE] ELSE S[k]]

\* Variant of Rollback that leaves the writes of the transaction in the table
RollbackKeepsWrites(S, t) == Tombstone(S, t.tomb) \o t.ins

\* transaction.Rollback() after a failed step: the writes of the transaction t are
\* discarded, the committed table S stays as it is
Rollback(S, t) == S

\* Variant of NewSaveRow that binds the wrong value to the size column
NewSaveRowWrongSize(S, name, size, inst, t) ==
  [id |-> Len(S) + 1, filename |-> name, deleted |-> FALSE, size |-> Len(name),
   created_at |-> t, instance_id |-> inst]

\* INSERT INTO saves (filename,size,instance_id) VALUES (?,?,?): id autoincrement,
\* deleted DEFAULT FALSE, created_at DEFAULT CURRENT_TIMESTAMP
NewSaveRow(S, name, size, inst, t) ==
  [id |-> Len(S) + 1, filename |-> name, deleted |-> FALSE, size |-> size,
   created_at |-> t, instance_id |-> inst]

FilesAt(d, path, name) == {f \in d : f.path = path /\ f.name = name}

\* os.Remove(filePath), relative to the working directory
RemoveFile(d, path, name) == d \ FilesAt(d, path, name)

\* tar -czf ./name ./dir: the archive file is (re)written in the working directory
WriteFile(d, path, name, size) ==
  RemoveFile(d, path, name) \cup {[path |-> path, name |-> name, size |-> size]}

\* ---- the catalog and storage at start-up ----
\* Row 1: an old tombstoned save of instance 1.  Row 2: a live save of the inactive
\* instance 2.  Rows 3..n+2: n live saves of instance 1, oldest first.
InitSaves(n) ==
  [k \in 1..(n + 2) |->
     [id |-> k, filename |-> FileName(k), deleted |-> (k = 1), size |-> 1,
      created_at |-> k, instance_id |-> IF k = 2 THEN 2 ELSE 1]]

InitS3(S) ==
  {[key |-> S3Key(InstanceTable[S[k].instance_id], S[k].filename), size |-> S[k].size] :
     k \in {j \in 1..Len(S) : ~S[j].deleted}}

\* the process after start-up, with n live saves of instance 1 in the catalog
InitWith(n) ==
  /\ pc = "getInstances"
  /\ runs = 0
  /\ saves = InitSaves(n)
  /\ s3 = InitS3(InitSaves(n))
  /\ now = n + 3
  /\ queue = << >>
  /\ cur = 0
  /\ playerCount = 0
  /\ disk = {}
  /\ cwd = "."
  /\ tx = NoTx
  /\ rows = << >>
  /\ idx = 0
  /\ tarFileName = NoFile
  /\ statSize = 0
  /\ retries = 0
  /\ tarErr = "none"
  /\ pruneRes = "none"
  /\ backupRes = "none"
  /\ ops = << >>
  /\ savesBeforePrune = << >>
  /\ s3BeforePrune = {}
  /\ savesBeforeBackup = << >>
  /\ s3BeforeBackup = {}
  /\ diskBeforeBackup = {}
  /\ runStart = 0
  /\ lastPrune = [i \in InstanceIds |-> NoPrune]
  /\ visited = {}
  /\ exitCause = "none"

\* start-up with more live saves than the retention count
Init == InitWith(MaxInitLive)

\* start-up with a catalog in which every instance has at most K live saves
InitWithinRetention == InitWith(SAVE_RETENTION_COUNT)

\* ---- frames ----
store == << saves, s3, disk, cwd >>
pruneLocals == << rows, idx, pruneRes, savesBeforePrune, s3BeforePrune >>
backupGhost == << savesBeforeBackup, s3BeforeBackup, diskBeforeBackup >>
backupLocals == << tarFileName, statSize, retries, tarErr, backupRes, backupGhost, runStart >>
sched == << runs, queue, cur, visited >>

\* The loop body of main ends: its locals go out of scope.
EndIteration ==
  /\ pc' = "loop"
  /\ playerCount' = 0
  /\ tx' = NoTx
  /\ rows' = << >>
  /\ idx' = 0
  /\ tarFileName' = NoFile
  /\ statSize' = 0
  /\ retries' = 0
  /\ tarErr' = "none"
  /\ pruneRes' = "none"
  /\ backupRes' = "none"
  /\ ops' = << >>
  /\ savesBeforePrune' = << >>
  /\ s3BeforePrune' = {}
  /\ savesBeforeBackup' = << >>
  /\ s3BeforeBackup' = {}
  /\ diskBeforeBackup' = {}
  /\ runStart' = 0

\* log.Fatalf, or a panic nothing recovers: the process ends.
Exit(cause) ==
  /\ pc' = "exited"
  /\ exitCause' = cause

\* ---- main (main.go:479-544) ----

\* instances, err := getInstances(db); an error is log.Fatalf
GetInstances ==
  /\ pc = "getInstances"
  /\ \E ok \in BOOLEAN :
       IF ok
       THEN /\ pc' = "loop"
            /\ queue' = [k \in 1..Len(InstanceTable) |-> k]
            /\ visited' = {}
            /\ UNCHANGED exitCause
       ELSE /\ Exit("getInstances")
            /\ UNCHANGED << queue, visited >>
  /\ UNCHANGED << runs, now, cur, playerCount, store, tx, pruneLocals, backupLocals,
                  ops, lastPrune >>

\* for _, instance := range instances { if !instance.active { continue } ...
NextInstance ==
  /\ pc = "loop"
  /\ queue # << >>
  /\ cur' = Head(queue)
  /\ queue' = Tail(queue)
  /\ IF InstanceTable[Head(queue)].active
     THEN pc' = "isRunning" /\ visited' = visited \cup {Head(queue)}
     ELSE pc' = "loop" /\ visited' = visited
  /\ UNCHANGED << runs, now, playerCount, store, tx, pruneLocals, backupLocals, ops,
                  lastPrune, exitCause >>

\* the range loop is over: log.Printf("Info: Waiting for %v minutes")
EndPass ==
  /\ pc = "loop"
  /\ queue = << >>
  /\ pc' = "wait"
  /\ cur' = 0
  /\ UNCHANGED << runs, now, queue, visited, playerCount, store, tx, pruneLocals,
                  backupLocals, ops, lastPrune, exitCause >>

\* time.Sleep(waitDuration), then the next pass
Wait ==
  /\ pc = "wait"
  /\ pc' = "getInstances"
  /\ UNCHANGED << runs, now, cur, queue, visited, playerCount, store, tx, pruneLocals, backupLocals,
                  ops, lastPrune, exitCause >>

\* containerRunning, err := isContainerRunning(...): an error is log.Fatalf (the
\* continue after it is never reached); a stopped container is skipped
IsContainerRunning ==
  /\ pc = "isRunning"
  /\ \E res \in {"error", "stopped", "running"} :
       CASE res = "error" ->
              /\ Exit("isContainerRunning")
              /\ UNCHANGED << playerCount, tx, pruneLocals, backupLocals, ops >>
         [] res = "stopped" ->
              /\ EndIteration
              /\ UNCHANGED exitCause
         [] res = "running" ->
              /\ pc' = "players"
              /\ UNCHANGED << playerCount, tx, pruneLocals, backupLocals, ops, exitCause >>
  /\ UNCHANGED << sched, now, store, lastPrune >>

\* getNumberOfPlayers (main.go:101-113): -1 and an error when the command or the
\* conversion fails; strings.Split(output, " ")[2] panics on a short reply
ListPlayers(res, n) ==
  CASE res = "error" -> -1
    [] res = "count" -> n

\* Variant of SkipsBackup with the comparison wrong
SkipsBackupNegative(count) == count < 0

\* if playerCount == 0 { continue }
SkipsBackup(count) == count = 0

\* playerCount, err = getNumberOfPlayers(...); the error is only logged
GetNumberOfPlayers ==
  /\ pc = "players"
  /\ \E res \in {"error", "short", "count"}, n \in PlayerCounts :
       IF res = "short"
       THEN /\ Exit("getNumberOfPlayers")
            /\ UNCHANGED playerCount
       ELSE /\ pc' = "playersChecked"
            /\ playerCount' = ListPlayers(res, n)
            /\ UNCHANGED exitCause
  /\ UNCHANGED << sched, now, store, tx, pruneLocals, backupLocals, ops, lastPrune >>

\* if playerCount == 0 { log; continue } else { log the number of players }.
\* playerCount is not read after this; it is kept only while it is live.  The runs are
\* a sleep apart, so each reads the clock at a later second than the one before.
CheckPlayers ==
  /\ pc = "playersChecked"
  /\ IF SkipsBackup(playerCount)
     THEN /\ EndIteration
          /\ UNCHANGED << runs, now >>
     ELSE /\ runs < MaxRuns
          /\ runs' = runs + 1
          /\ now' = now + 1
          /\ pc' = "pruneQuery"
          /\ playerCount' = 0
          /\ UNCHANGED << tx, pruneLocals, backupLocals, ops >>
  /\ UNCHANGED << queue, cur, visited, store, lastPrune, exitCause >>

\* ---- removeOldSaves (main.go:373-430) ----

\* Variant of PruneKeep that does not leave room for the save about to happen
PruneKeepNoReserve == SAVE_RETENTION_COUNT

\* removeOldSaves(db, instance, saveRetention-1)
PruneKeep == SAVE_RETENTION_COUNT - 1

\* saveRecords, err := db.Query("SELECT ... ORDER BY created_at DESC")
PruneQuery ==
  /\ pc = "pruneQuery"
  /\ savesBeforePrune' = saves
  /\ s3BeforePrune' = s3
  /\ \E ok \in BOOLEAN :
       IF ok
       THEN /\ pc' = "pruneBegin"
            /\ rows' = SelectLiveSaves(saves, Inst.id)
            /\ idx' = 0
            /\ UNCHANGED pruneRes
       ELSE /\ pc' = "pruneDone"
            /\ pruneRes' = "err"
            /\ UNCHANGED << rows, idx >>
  /\ UNCHANGED << sched, now, playerCount, store, tx, backupLocals, ops, lastPrune,
                  exitCause >>

\* tx, _ := db.Begin(): the error is dropped, tx is nil when Begin failed
PruneBegin ==
  /\ pc = "pruneBegin"
  /\ \E ok \in BOOLEAN : tx' = IF ok THEN OpenTx ELSE NilTx
  /\ pc' = "pruneLoop"
  /\ UNCHANGED << sched, now, playerCount, store, pruneLocals, backupLocals, ops,
                  lastPrune, exitCause >>

\* return fmt.Errorf(...) inside removeOldSaves: the deferred tx.Rollback() runs, and
\* panics on a nil tx
PruneReturnErr ==
  IF tx.state = "nil"
  THEN /\ Exit("removeOldSaves")
       /\ UNCHANGED << tx, pruneRes >>
  ELSE /\ pc' = "pruneDone"
       /\ pruneRes' = "err"
       /\ tx' = NoTx
       /\ UNCHANGED exitCause

\* Variant of IsRetained that is off by one
IsRetainedOffByOne(i, keep) == i <= keep

\* if i < saveRetention { i = i + 1; continue }
IsRetained(i, keep) == i < keep

\* one iteration of for saveRecords.Next() { ... }
PruneRow ==
  /\ pc = "pruneLoop"
  /\ rows # << >>
  /\ LET r == Head(rows) IN
     IF IsRetained(idx, PruneKeep)
     THEN /\ idx' = idx + 1
          /\ rows' = Tail(rows)
          /\ UNCHANGED << pc, tx, pruneRes, s3, ops, exitCause >>
     ELSE \E scanOk, rmOk, execOk \in BOOLEAN :
            CASE ~scanOk ->
                   \* saveRecords.Scan fails
                   /\ PruneReturnErr
                   /\ UNCHANGED << rows, idx, s3, ops >>
              [] scanOk /\ ~rmOk ->
                   \* deleteS3File fails
                   /\ ops' = Append(ops, Ev("s3rm-fail", r.filename, r.id))
                   /\ PruneReturnErr
                   /\ UNCHANGED << rows, idx, s3 >>
              [] scanOk /\ rmOk /\ tx.state = "nil" ->
                   \* the object is removed, then tx.Exec panics on the nil tx
                   /\ s3' = S3Remove(s3, Inst, r.filename)
                   /\ ops' = Append(ops, Ev("s3rm", r.filename, r.id))
                   /\ Exit("removeOldSaves")
                   /\ UNCHANGED << rows, idx, tx, pruneRes >>
              [] scanOk /\ rmOk /\ tx.state # "nil" /\ ~execOk ->
                   \* the object is removed, the UPDATE fails
                   /\ s3' = S3Remove(s3, Inst, r.filename)
                   /\ ops' = Append(ops, Ev("s3rm", r.filename, r.id))
                   /\ PruneReturnErr
                   /\ UNCHANGED << rows, idx >>
              [] scanOk /\ rmOk /\ tx.state # "nil" /\ execOk ->
                   /\ s3' = S3Remove(s3, Inst, r.filename)
                   /\ ops' = ops \o << Ev("s3rm", r.filename, r.id), Ev("tomb", r.filename, r.id) >>
                   /\ tx' = [tx EXCEPT !.tomb = @ \cup {r.id}]
                   /\ rows' = Tail(rows)
                   /\ UNCHANGED << pc, idx, pruneRes, exitCause >>
  /\ UNCHANGED << sched, now, playerCount, saves, disk, cwd, savesBeforePrune,
                  s3BeforePrune, backupLocals, lastPrune >>

\* err = tx.Commit(): panics on a nil tx; the tombstones of the pass commit together
PruneCommit ==
  /\ pc = "pruneLoop"
  /\ rows = << >>
  /\ IF tx.state = "nil"
     THEN /\ Exit("removeOldSaves")
          /\ UNCHANGED << tx, pruneRes, saves >>
     ELSE /\ pc' = "pruneDone"
          /\ tx' = NoTx
          /\ UNCHANGED exitCause
          /\ \E ok \in BOOLEAN :
               IF ok
               THEN saves' = Tombstone(saves, tx.tomb) /\ pruneRes' = "ok"
               ELSE saves' = Rollback(saves, tx) /\ pruneRes' = "err"
  /\ UNCHANGED << sched, now, playerCount, s3, disk, cwd, rows, idx, savesBeforePrune,
                  s3BeforePrune, backupLocals, ops, lastPrune >>

\* back in main: the error of removeOldSaves is logged only; then the keepInventory
\* gamerule is sent (its result is dropped) and backupInstance is called
SetKeepInventory ==
  /\ pc = "pruneDone"
  /\ pc' = "backupBegin"
  /\ ops' = Append(ops, Cmd(IF Inst.keepInventory THEN "/gamerule keepInventory true"
                                                    ELSE "/gamerule keepInventory false"))
  /\ savesBeforeBackup' = saves
  /\ s3BeforeBackup' = s3
  /\ diskBeforeBackup' = disk
  /\ UNCHANGED << sched, now, playerCount, store, tx, pruneLocals, tarFileName, statSize,
                  retries, tarErr, backupRes, runStart, lastPrune, exitCause >>

\* ---- backupInstance (main.go:184-307) ----

\* Variant of DeferredCommands that does not turn saving back on
DeferredCommandsNoSaveOn == << Cmd("/gamerule sendCommandFeedback true") >>

\* the commands of the deferred function, sent on every return after the defer
DeferredCommands == << Cmd("/save-on"), Cmd("/gamerule sendCommandFeedback true") >>

\* A return of backupInstance after the defer statement: the deferred function
\* (main.go:193-208) sends /save-on and turns command feedback on (their errors are
\* logged), then transaction.Rollback(), which has no effect after a commit.
BackupReturn(res, issued) ==
  /\ pc' = "backupDone"
  /\ backupRes' = res
  /\ ops' = issued \o DeferredCommands
  /\ tx' = NoTx

\* the archive file of this run in the working directory
LocalFile == CHOOSE f \in FilesAt(disk, cwd, tarFileName) : TRUE

\* transaction, err := db.Begin(); on an error the function returns before the defer
BackupBegin ==
  /\ pc = "backupBegin"
  /\ \E ok \in BOOLEAN :
       IF ok
       THEN pc' = "chdir" /\ tx' = OpenTx /\ UNCHANGED backupRes
       ELSE pc' = "backupDone" /\ backupRes' = "err" /\ UNCHANGED tx
  /\ UNCHANGED << sched, now, playerCount, store, pruneLocals, tarFileName, statSize,
                  retries, tarErr, backupGhost, runStart, ops, lastPrune, exitCause >>

\* err = os.Chdir(instance.workingPath)
Chdir ==
  /\ pc = "chdir"
  /\ \E ok \in BOOLEAN :
       IF ok
       THEN /\ pc' = "feedbackOff"
            /\ cwd' = Inst.workingPath
            /\ UNCHANGED << backupRes, ops, tx >>
       ELSE /\ BackupReturn("err", ops)
            /\ UNCHANGED cwd
  /\ UNCHANGED << sched, now, playerCount, saves, s3, disk, pruneLocals, tarFileName,
                  statSize, retries, tarErr, backupGhost, runStart, lastPrune, exitCause >>

\* /gamerule sendCommandFeedback false; then getTime, tarFileName and say("Saving world...")
FeedbackOff ==
  /\ pc = "feedbackOff"
  /\ \E ok \in BOOLEAN :
       IF ok
       THEN /\ pc' = "saveOff"
            /\ runStart' = now
            /\ tarFileName' = FileName(now)
            /\ ops' = ops \o << Cmd("/gamerule sendCommandFeedback false"),
                                 Cmd("/say Saving world...") >>
            /\ UNCHANGED << backupRes, tx >>
       ELSE /\ BackupReturn("err", Append(ops, Cmd("/gamerule sendCommandFeedback false")))
            /\ UNCHANGED << runStart, tarFileName >>
  /\ UNCHANGED << sched, now, playerCount, store, pruneLocals, statSize, retries, tarErr,
                  backupGhost, lastPrune, exitCause >>

\* Variant of SaveOff that goes on without turning saving off
SaveOffSkipped ==
  /\ pc = "saveOff"
  /\ pc' = "saveAll"
  /\ UNCHANGED << sched, now, playerCount, store, tx, pruneLocals, backupLocals, ops,
                  lastPrune, exitCause >>

\* /save-off, then time.Sleep(5 * time.Second)
SaveOff ==
  /\ pc = "saveOff"
  /\ \E ok \in BOOLEAN :
       IF ok
       THEN /\ pc' = "saveAll"
            /\ ops' = ops \o << Cmd("/save-off"), Sleep(5) >>
            /\ UNCHANGED << backupRes, tx >>
       ELSE BackupReturn("err", Append(ops, Cmd("/save-off")))
  /\ UNCHANGED << sched, now, playerCount, store, pruneLocals, tarFileName, statSize,
                  retries, tarErr, backupGhost, runStart, lastPrune, exitCause >>

\* Variant of SaveAll that goes on to the archive without flushing the world
SaveAllSkipped ==
  /\ pc = "saveAll"
  /\ pc' = "tar"
  /\ UNCHANGED << sched, now, playerCount, store, tx, pruneLocals, backupLocals, ops,
                  lastPrune, exitCause >>

\* /save-all, then time.Sleep(10 * time.Second)
SaveAll ==
  /\ pc = "saveAll"
  /\ \E ok \in BOOLEAN :
       IF ok
       THEN /\ pc' = "tar"
            /\ ops' = ops \o << Cmd("/save-all"), Sleep(10) >>
            /\ UNCHANGED << backupRes, tx >>
       ELSE BackupReturn("err", ops \o << Cmd("/save-all"), Cmd("/say Failed to save world") >>)
  /\ UNCHANGED << sched, now, playerCount, store, pruneLocals, tarFileName, statSize,
                  retries, tarErr, backupGhost, runStart, lastPrune, exitCause >>

\* Variant of AttemptFileName that names every attempt anew from the clock
AttemptFileNameFresh(name, t) == FileName(t + 1)

\* The archive name of the next attempt: tarFileName is set once, before the loop
AttemptFileName(name, t) == name

\* One iteration of the for { tar ... } loop.  tar ends "ok" (the archive is written),
\* "partial" (an archive file is left, tar reports an error) or "nofile" (tar fails
\* before it creates the file).  On an error the file is removed (os.Remove fails when
\* there is none), the loop sleeps 5 s and tries again.
Tar ==
  /\ pc = "tar"
  /\ \E res \in {"ok", "partial", "nofile"}, size \in Sizes, rmOk \in BOOLEAN,
        kind \in TarErrors :
       LET name == AttemptFileName(tarFileName, now)
           written == IF res = "nofile" THEN disk ELSE WriteFile(disk, cwd, name, size)
           removable == rmOk /\ FilesAt(written, cwd, name) # {}
       IN
       /\ tarFileName' = name
       /\ tarErr' = IF res = "ok" THEN "none" ELSE kind
       /\ CASE res = "ok" ->
                 /\ pc' = "upload"
                 /\ disk' = written
                 /\ ops' = Append(ops, Ev("tar", name, 0))
                 /\ UNCHANGED << retries, backupRes, tx >>
            [] res # "ok" /\ removable ->
                 /\ retries < MaxRetries
                 /\ pc' = "tar"
                 /\ disk' = RemoveFile(written, cwd, name)
                 /\ ops' = ops \o << Ev("tar-fail", name, 0), Ev("rm", name, 0), Sleep(5) >>
                 /\ retries' = retries + 1
                 /\ UNCHANGED << backupRes, tx >>
            [] res # "ok" /\ ~removable ->
                 /\ BackupReturn("err", ops \o << Ev("tar-fail", name, 0),
                                                  Ev("rm-fail", name, 0) >>)
                 /\ disk' = written
                 /\ UNCHANGED retries
  /\ UNCHANGED << sched, now, playerCount, saves, s3, cwd, pruneLocals, statSize,
                  backupGhost, runStart, lastPrune, exitCause >>

\* err = backUpToS3(tarFileName, bucket, prefix, storageClass)
Upload ==
  /\ pc = "upload"
  /\ \E ok \in BOOLEAN :
       IF ok
       THEN /\ pc' = "stat"
            /\ s3' = S3Put(s3, Inst, tarFileName, LocalFile.size)
            /\ ops' = Append(ops, Ev("s3cp", tarFileName, 0))
            /\ UNCHANGED << backupRes, tx >>
       ELSE /\ BackupReturn("err", Append(ops, Ev("s3cp-fail", tarFileName, 0)))
            /\ UNCHANGED s3
  /\ UNCHANGED << sched, now, playerCount, saves, disk, cwd, pruneLocals, tarFileName,
                  statSize, retries, tarErr, backupGhost, runStart, lastPrune, exitCause >>

\* tarFileStats, err := os.Stat(tarFileName)
Stat ==
  /\ pc = "stat"
  /\ \E ok \in BOOLEAN :
       IF ok
       THEN /\ pc' = "insert"
            /\ statSize' = LocalFile.size
            /\ UNCHANGED << backupRes, ops, tx >>
       ELSE /\ BackupReturn("err", ops)
            /\ UNCHANGED statSize
  /\ UNCHANGED << sched, now, playerCount, store, pruneLocals, tarFileName, retries, tarErr,
                  backupGhost, runStart, lastPrune, exitCause >>

\* _, err = transaction.Exec("INSERT INTO saves ...", tarFileName, size, instance.id)
Insert ==
  /\ pc = "insert"
  /\ \E ok \in BOOLEAN :
       IF ok
       THEN /\ pc' = "deleteLocal"
            /\ tx' = [tx EXCEPT !.ins =
                        Append(@, NewSaveRow(saves, tarFileName, statSize, Inst.id, now))]
            /\ ops' = Append(ops, Ev("insert", tarFileName, 0))
            /\ UNCHANGED backupRes
       ELSE BackupReturn("err", ops)
  /\ UNCHANGED << sched, now, playerCount, store, pruneLocals, tarFileName, statSize,
                  retries, tarErr, backupGhost, runStart, lastPrune, exitCause >>

\* err = deleteFile(tarFileName); then say("Save successful!") and the success log line
DeleteLocal ==
  /\ pc = "deleteLocal"
  /\ \E ok \in BOOLEAN :
       IF ok
       THEN /\ pc' = "commit"
            /\ disk' = RemoveFile(disk, cwd, tarFileName)
            /\ ops' = ops \o << Ev("rm", tarFileName, 0), Cmd("/say Save successful!") >>
            /\ UNCHANGED << backupRes, tx >>
       ELSE /\ BackupReturn("err", Append(ops, Ev("rm-fail", tarFileName, 0)))
            /\ UNCHANGED disk
  /\ UNCHANGED << sched, now, playerCount, saves, s3, cwd, pruneLocals, tarFileName,
                  statSize, retries, tarErr, backupGhost, runStart, lastPrune, exitCause >>

\* err = transaction.Commit(); return nil when it succeeds
Commit ==
  /\ pc = "commit"
  /\ \E ok \in BOOLEAN :
       IF ok
       THEN /\ saves' = saves \o tx.ins
            /\ BackupReturn("ok", Append(ops, Ev("commit", tarFileName, 0)))
            /\ lastPrune' = [lastPrune EXCEPT ![cur] = NoPrune]
       ELSE /\ saves' = Rollback(saves, tx)
            /\ BackupReturn("err", Append(ops, Ev("commit-fail", tarFileName, 0)))
            /\ UNCHANGED lastPrune
  /\ UNCHANGED << sched, now, playerCount, s3, disk, cwd, pruneLocals, tarFileName,
                  statSize, retries, tarErr, backupGhost, runStart, exitCause >>

\* back in main: the error of backupInstance is logged; the loop body ends
LogBackupResult ==
  /\ pc = "backupDone"
  /\ lastPrune' = [lastPrune EXCEPT ![cur] =
                     IF backupRes = "ok" THEN NoPrune
                     ELSE [res |-> pruneRes, live |-> Live(saves, cur)]]
  /\ EndIteration
  /\ UNCHANGED << sched, now, store, exitCause >>

Next ==
  \/ GetInstances
  \/ NextInstance
  \/ EndPass
  \/ Wait
  \/ IsContainerRunning
  \/ GetNumberOfPlayers
  \/ CheckPlayers
  \/ PruneQuery
  \/ PruneBegin
  \/ PruneRow
  \/ PruneCommit
  \/ SetKeepInventory
  \/ BackupBegin
  \/ Chdir
  \/ FeedbackOff
  \/ SaveOff
  \/ SaveAll
  \/ Tar
  \/ Upload
  \/ Stat
  \/ Insert
  \/ DeleteLocal
  \/ Commit
  \/ LogBackupResult

Spec == Init /\ [][Next]_vars

SpecWithinRetention == InitWithinRetention /\ [][Next]_vars

\* The worker is one sequential process and every call it makes returns: a step
\* that can be taken is taken.
FairSpec == Init /\ [][Next]_vars /\ WF_vars(Next)

\* ---- properties ----

HasOp(o) == \E i \in DOMAIN ops : ops[i].op = o
HasEvent(e) == \E i \in DOMAIN ops : ops[i] = e

\* the worker is between two calls of removeOldSaves / backupInstance
BetweenOperations == pc \in {"getInstances", "loop", "wait"}

RowObjectExists(k) ==
  S3Has(s3, InstanceTable[saves[k].instance_id], saves[k].filename)

\* number of live saves of the current instance when removeOldSaves was called
LiveBeforePrune == Cardinality(Live(savesBeforePrune, cur))

\* the keep newest of the rows that were live when removeOldSaves was called
NewestBeforePrune(keep) ==
  LET L == Live(savesBeforePrune, cur)
  IN {k \in L : Cardinality({j \in L : savesBeforePrune[j].created_at
                                         > savesBeforePrune[k].created_at}) < keep}

\* removeOldSaves issued no remote delete and no tombstone for the current instance
PruneIssuedNothing ==
  \A i \in DOMAIN ops : ops[i].op \notin {"s3rm", "s3rm-fail", "tomb"}

BackupSucceeded == pc = "backupDone" /\ backupRes = "ok"

\* C1: between operations every committed Save row with deleted = false names an
\* object that exists in the instance's bucket/prefix, and every row with
\* deleted = true names an object that does not exist there.
C1_SaveRowsMatchRemoteObjects ==
  BetweenOperations =>
    \A k \in 1..Len(saves) : saves[k].deleted = ~RowObjectExists(k)

\* C2: when backupInstance returns after /save-off was issued, /save-on was issued
\* after it, whatever step failed in between.
C2_SaveOnIssuedBeforeReturn ==
  pc = "backupDone" =>
    \A i \in DOMAIN ops :
      ops[i] = Cmd("/save-off") =>
        \E j \in DOMAIN ops : j > i /\ ops[j] = Cmd("/save-on")

C2_Witness ==
  /\ pc = "backupDone"
  /\ backupRes = "err"
  /\ HasEvent(Cmd("/save-off"))
  /\ HasOp("s3cp-fail")

\* C3: after a successful backup the catalog is the catalog before the call plus one
\* non-deleted row of the instance, whose size is the size of the uploaded object.
C3_SuccessfulBackupAddsOneSave ==
  BackupSucceeded =>
    /\ Len(saves) = Len(savesBeforeBackup) + 1
    /\ SubSeq(saves, 1, Len(savesBeforeBackup)) = savesBeforeBackup
    /\ LET r == saves[Len(saves)] IN
         /\ r.instance_id = Inst.id
         /\ ~r.deleted
         /\ HasEvent(Ev("s3cp", r.filename, 0))
         /\ \E o \in s3 : o.key = S3Key(Inst, r.filename) /\ o.size = r.size

C3_Witness ==
  /\ BackupSucceeded
  /\ Live(savesBeforeBackup, cur) # {}
  /\ saves[Len(saves)].size = 2

C5_PruneKeepsNewest ==
  (pc = "pruneDone" /\ pruneRes = "ok") =>
    LET kept == NewestBeforePrune(PruneKeep) IN
      /\ Len(saves) = Len(savesBeforePrune)
      /\ Live(saves, cur) = kept
      /\ \A k \in kept : saves[k] = savesBeforePrune[k]
      /\ \A k \in Live(savesBeforePrune, cur) \ kept :
           /\ saves[k] = [savesBeforePrune[k] EXCEPT !.deleted = TRUE]
           /\ ~S3Has(s3, Inst, savesBeforePrune[k].filename)

C5_Witness ==
  /\ pc = "pruneDone"
  /\ pruneRes = "ok"
  /\ LiveBeforePrune = PruneKeep + 2
  /\ Cardinality(Live(saves, cur)) = PruneKeep

\* C6: if a remote delete fails during a prune pass, the pass returns an error, the
\* catalog is exactly as before the pass, and the same rows are selected again.
C6_FailedDeleteReturnsErrCatalogUnchanged ==
  HasOp("s3rm-fail") =>
    /\ exitCause = "none"
    /\ pc = "pruneDone" =>
         /\ pruneRes = "err"
         /\ saves = savesBeforePrune
         /\ SelectLiveSaves(saves, cur) = SelectLiveSaves(savesBeforePrune, cur)

\* C7 as stated: a prune that follows a prune of the same instance with no Save
\* created in between issues no remote delete and no tombstone, and the live saves
\* are those the first prune left.
C7_SecondPruneDoesNothing ==
  (cur # 0 /\ lastPrune[cur].res # "none") =>
    /\ PruneIssuedNothing
    /\ Live(saves, cur) = lastPrune[cur].live

\* C7 amended: the same, when the first prune returned without an error.
C7_SecondPruneAfterSuccessDoesNothing ==
  (cur # 0 /\ lastPrune[cur].res = "ok") =>
    /\ PruneIssuedNothing
    /\ Live(saves, cur) = lastPrune[cur].live

C7_Witness ==
  /\ pc = "pruneDone"
  /\ pruneRes = "ok"
  /\ lastPrune[cur].res = "ok"
  /\ Cardinality(lastPrune[cur].live) = PruneKeep
  /\ \E k \in 1..Len(saves) : saves[k].instance_id = cur /\ saves[k].deleted /\ k > 2

\* C8: a backup that succeeds after any number of failed archive attempts ends as
\* one that succeeds at once does: the catalog gains the one row of the archive name
\* chosen before the loop, remote storage gains the one object of that name, and
\* the local disk is as before the call (created_at, the wall clock at the insert,
\* is not compared).
C8_RetriesDoNotChangeResult ==
  BackupSucceeded =>
    \E sz \in Sizes :
      /\ Len(saves) = Len(savesBeforeBackup) + 1
      /\ SubSeq(saves, 1, Len(savesBeforeBackup)) = savesBeforeBackup
      /\ [saves[Len(saves)] EXCEPT !.created_at = 0]
           = [id |-> Len(savesBeforeBackup) + 1, filename |-> FileName(runStart),
              deleted |-> FALSE, size |-> sz, created_at |-> 0, instance_id |-> cur]
      /\ s3 = S3Put(s3BeforeBackup, Inst, FileName(runStart), sz)
      /\ disk = diskBeforeBackup

C8_Witness ==
  /\ BackupSucceeded
  /\ retries = MaxRetries
  /\ retries >= 1

\* C9: when the player count of an instance is zero the loop body ends at once: no
\* archive, no upload, no catalog write, no other external call, and the process
\* goes on to the next instance.
C9_ZeroPlayersSkipsInstance ==
  [][(pc = "playersChecked" /\ playerCount = 0) =>
       /\ pc' = "loop"
       /\ exitCause' = "none"
       /\ ops' = << >>
       /\ UNCHANGED << saves, s3, disk, runs >>]_vars

C9_Witness ==
  /\ pc = "playersChecked"
  /\ playerCount = 0
  /\ cur = 1

\* C10: no failure of the pruner, the orchestrator or a reachability check for one
\* instance ends the process.
C10_InstanceFailureNeverStopsLoop ==
  exitCause \notin {"isContainerRunning", "getNumberOfPlayers", "removeOldSaves"}

\* C11: whenever backupInstance returns, no archive file of that invocation remains
\* in the working directory, on success and on every failure (a run whose delete of
\* the file was attempted and failed aside).
C11_LocalArchiveAlwaysDeleted ==
  (pc = "backupDone" /\ tarFileName # NoFile /\ ~HasOp("rm-fail")) =>
    FilesAt(disk, cwd, tarFileName) = {}

\* the commands first and second, each followed by its settle delay, were issued in
\* that order before position i of the log
QuiescedBefore(i, first, delay1, second, delay2) ==
  \E a \in 1..(i - 1) :
    /\ ops[a] = Cmd(first)
    /\ \E b \in (a + 1)..(i - 1) :
         /\ ops[b] = Sleep(delay1)
         /\ \E c \in (b + 1)..(i - 1) :
              /\ ops[c] = Cmd(second)
              /\ \E d \in (c + 1)..(i - 1) : ops[d] = Sleep(delay2)

TarAttempts == {i \in DOMAIN ops : ops[i].op \in {"tar", "tar-fail"}}

\* C12 as stated: /save-all is issued and its settle delay elapses before /save-off
\* is issued, and the archive is produced only after both commands and both delays.
C12_FlushThenDisableThenArchive ==
  \A i \in TarAttempts : QuiescedBefore(i, "/save-all", 10, "/save-off", 5)

\* C12 amended: /save-off is issued and its settle delay elapses before /save-all is
\* issued, and the archive is produced only after both commands and both delays.
C12_DisableThenFlushThenArchive ==
  \A i \in TarAttempts : QuiescedBefore(i, "/save-off", 5, "/save-all", 10)

C12_Witness ==
  /\ pc = "upload"
  /\ HasOp("tar")
  /\ HasOp("tar-fail")

\* C13: a failure of the command that turns command feedback off is not fatal: once
\* that command has been sent, whatever its outcome, the run goes on to the quiesce
\* (it sends /save-off) before it returns.
C13_FeedbackFailureIsNotFatal ==
  (pc = "backupDone" /\ HasEvent(Cmd("/gamerule sendCommandFeedback false"))) =>
    HasEvent(Cmd("/save-off"))

\* C14: when the player-count query fails (getNumberOfPlayers returns -1 and an
\* error) the instance is skipped for that cycle: the loop body ends there, with no
\* remote delete, tombstone, archive, upload or insert.
C14_UnreachableInstanceSkipped ==
  [][(pc = "playersChecked" /\ playerCount < 0) =>
       /\ pc' = "loop"
       /\ UNCHANGED << saves, s3, disk, runs >>]_vars

\* C15: when tar fails with an unrecoverable system error the retry loop stops and
\* the backup returns a failure: after such an error the run is never about to try
\* the archive again.
C15_SystemErrorStopsRetryLoop ==
  tarErr = "system" => (pc = "backupDone" /\ backupRes = "err")

\* C16: whenever removeOldSaves or backupInstance returns an error, the committed
\* saves table is what it was when the call started: no row inserted, none tombstoned.
C16_ErrorLeavesCatalogUnchanged ==
  /\ (pc = "pruneDone" /\ pruneRes = "err") => saves = savesBeforePrune
  /\ (pc = "backupDone" /\ backupRes = "err") => saves = savesBeforeBackup

C16_Witness ==
  /\ pc = "backupDone"
  /\ backupRes = "err"
  /\ pruneRes = "err"
  /\ HasOp("tomb")
  /\ HasOp("insert")
  /\ HasOp("commit-fail")

\* C17: starting from a catalog in which every instance has at most K live saves, at
\* the end of every scheduler pass every instance has at most K live saves.
C17_AtMostKLiveAtPassEnd ==
  pc = "wait" =>
    \A i \in InstanceIds : Cardinality(Live(saves, i)) <= SAVE_RETENTION_COUNT

ActiveInstances == {i \in InstanceIds : InstanceTable[i].active}

\* the worker is inside the loop body of an instance, past the active test
InLoopBody == pc \notin {"getInstances", "loop", "wait", "exited"}

\* C18: in each pass every active instance is attempted and no inactive instance is
\* ever pruned or backed up; after the last instance the loop goes to the interval
\* wait with every active instance attempted; the loop is never ended by the
\* processing of an instance (the failure to read the instance list aside).
C18_ActiveOnceInactiveNeverNoTerminal ==
  /\ InLoopBody => cur \in ActiveInstances
  /\ visited \subseteq ActiveInstances
  /\ pc = "wait" => visited = ActiveInstances
  /\ pc = "exited" => exitCause = "getInstances"

\* the run bound of the model is used up and the worker is about to start a run
RunsExhausted == pc = "playersChecked" /\ runs = MaxRuns /\ ~SkipsBackup(playerCount)

\* C19: the archive loop has no retry cap, and when tar fails only finitely often and
\* every other call returns, backupInstance returns and the scheduler reaches the
\* interval wait.
C19_ArchiveLoopEndsAndPassReachesWait ==
  (pc = "tar") ~> (pc = "wait" \/ RunsExhausted)

\* C20: the success message is sent only in runs whose Save row is committed and
\* that return success: a run that has sent "Save successful!" does not return an
\* error.
C20_SuccessMessageOnlyOnSuccess ==
  (pc = "backupDone" /\ HasEvent(Cmd("/say Save successful!"))) =>
    /\ backupRes = "ok"
    /\ Len(saves) = Len(savesBeforeBackup) + 1

\* the worker is inside removeOldSaves
InPrune == pc \in {"pruneQuery", "pruneBegin", "pruneLoop"}

\* C21: Save rows are never removed and tombstones never reverted: in every step the
\* table keeps its rows, a row changes at most its deleted flag, from false to true,
\* only a step of removeOldSaves changes it, and outside removeOldSaves every row
\* that existed stays as it is.
C21_RowsOnlyGrowTombstonesOnlySet ==
  [][/\ Len(saves') >= Len(saves)
     /\ \A k \in 1..Len(saves) :
          \/ saves'[k] = saves[k]
          \/ /\ InPrune
             /\ ~saves[k].deleted
             /\ saves'[k] = [saves[k] EXCEPT !.deleted = TRUE]]_vars

C21_Witness ==
  /\ Len(saves) > MaxInitLive + 2
  /\ \E k \in 3..Len(saves) : saves[k].deleted

\* rows that a prune of the current instance must not touch: the keep newest of its
\* live saves at the call, and every save of another instance
ProtectedFromPrune ==
  NewestBeforePrune(PruneKeep)
    \cup {k \in 1..Len(savesBeforePrune) : savesBeforePrune[k].instance_id # cur}

\* C22: in every execution of removeOldSaves, successful or failed, no remote delete
\* and no tombstone is issued for any of the keep newest live saves of the instance
\* nor for a save of another instance; their rows and their remote objects stay.
C22_PruneSparesNewestAndOtherInstances ==
  savesBeforePrune # << >> =>
    /\ \A i \in DOMAIN ops :
         ops[i].op \in {"s3rm", "s3rm-fail", "tomb"} =>
           /\ ops[i].id \in Live(savesBeforePrune, cur) \ ProtectedFromPrune
           /\ ops[i].file = savesBeforePrune[ops[i].id].filename
    /\ \A k \in ProtectedFromPrune :
         /\ saves[k] = savesBeforePrune[k]
         /\ S3Has(s3, InstanceTable[saves[k].instance_id], saves[k].filename)
              = S3Has(s3BeforePrune, InstanceTable[saves[k].instance_id], saves[k].filename)

C22_Witness ==
  /\ pc = "pruneDone"
  /\ pruneRes = "err"
  /\ HasOp("tomb")
  /\ HasOp("s3rm-fail")
  /\ Cardinality(NewestBeforePrune(PruneKeep)) = PruneKeep

\* C23: tar reads the world directory only inside the quiesce window: every archive
\* attempt of a run, retries included, comes after the /save-off of that run and
\* before any /save-on of that run.
C23_ArchiveOnlyWhileSavingIsOff ==
  \A i \in TarAttempts :
    /\ \E a \in 1..(i - 1) : ops[a] = Cmd("/save-off")
    /\ \A j \in 1..(i - 1) : ops[j] # Cmd("/save-on")

C23_Witness ==
  /\ pc = "backupDone"
  /\ HasOp("tar-fail")
  /\ HasOp("tar")
  /\ HasEvent(Cmd("/save-on"))

====
